---- MODULE Spec2Model ----
(***************************************************************************)
(* A model of the log-streamer Logger: the four revisions of Logger() kept *)
(* in src/lib/index.ts and src/lib/got.ts.  Each revision builds one       *)
(* request, waits a grace period and hands out a write function guarded    *)
(* by a writable flag and a drop counter.                                  *)
(*                                                                         *)
(*   "https"     src/lib/index.ts:16   listeners throw                     *)
(*   "http"      src/lib/index.ts:226  listeners log and reject            *)
(*   "got"       src/lib/got.ts:15     no listeners on the request         *)
(*   "throttled" src/lib/got.ts:120    listeners reject, PassThrough sink, *)
(*                                     throttled flush                     *)
(***************************************************************************)
EXTENDS Integers, Sequences, FiniteSets, TLC

VARIABLES
    variant,      \* which revision of Logger() runs
    now,          \* the clock, in milliseconds since Logger() was called
    promise,      \* the promise returned by Logger()
    timerFired,   \* the continuation after `await sleep(...)` has run
    piped,        \* the sink has been piped downstream
    signals,      \* the request events delivered so far, in order
    uncaught,     \* the exception that escaped a listener (the process died)
    logged,       \* the lines given to console.error, in order
    writable,     \* let writable
    dropCount,    \* let dropCount
    sinkInput,    \* every character ever given to the sink's write()
    queue,        \* sizes of the chunks buffered in the sink's writable side
    needDrain,    \* the sink owes a 'drain' event
    flushes,      \* the calls of gzip.flush(): when, after how much input
    pendingFlush, \* the times at which the scheduled throttled flushes are due
    throttle,     \* the window of the throttle: currentTick, activeCount
    ended,        \* end() was called on the stream after a compressor error
    calls,        \* every call of write so far: record, caller, flag at call
    raised,       \* a call of write threw to its caller
    drains        \* 'drain' events handled so far

vars == <<variant, now, promise, timerFired, piped, signals, uncaught, logged,
          writable, dropCount, sinkInput, queue, needDrain, flushes,
          pendingFlush, throttle, ended, calls, raised, drains>>

None == "none"
\* no exception
NoError == [name |-> None, message |-> <<>>, cause |-> None]

----------------------------------------------------------------------------
(* Bounds of the model *)

MaxTime == 5100
MaxWrites == 3
MaxSignals == 1
\* The sink's high-water mark, scaled to the model's short lines (the code
\* sets 1024 bytes for gzip in "https" and "http", leaves gzip's default in
\* "got" and sets MAX_PENDING_BYTES / 2 for the PassThrough of "throttled").
\* A line of the model is 9 to 15 tokens long: the warning (13) fits an empty
\* buffer, as it does in the code, and the longest record alone fills it.
SinkHighWaterMark == 14

----------------------------------------------------------------------------
(* Program constants *)

RESPONSE_GRACE_PERIOD == 5 * 1000
ZLIB_TIMEOUT == 100
\* pThrottle({ limit: 1, interval: ZLIB_TIMEOUT })
ThrottleLimit == 1

Variants == {"https", "http", "got", "throttled"}
\* the revisions that register listeners on the request
Listening == {"https", "http", "throttled"}
TimeSteps == {ZLIB_TIMEOUT, RESPONSE_GRACE_PERIOD \div 2}
StatusCodes == {401, 503}

----------------------------------------------------------------------------
(* Text: a string is a sequence of tokens; three tokens are the characters *)
(* JSON has to escape.                                                     *)

NL == "\n"
QUOTE == "\""
BACKSLASH == "\\"

RECURSIVE Escape(_)
Escape(str) ==
    IF str = <<>> THEN <<>>
    ELSE LET c == Head(str) IN
         (CASE c = NL -> <<BACKSLASH, "n">>
            [] c = QUOTE -> <<BACKSLASH, QUOTE>>
            [] c = BACKSLASH -> <<BACKSLASH, BACKSLASH>>
            [] OTHER -> <<c>>) \o Escape(Tail(str))

Bool(b) == IF b THEN "true" ELSE "false"

\* JSON.stringify(msg): throws on a record that refers to itself, else the
\* members in insertion order on one line.
JSONstringify(msg) ==
    IF msg.cyclic
    THEN [thrown |-> [name |-> "TypeError",
                      message |-> <<"Converting circular structure to JSON">>,
                      cause |-> None],
          text |-> <<>>]
    ELSE [thrown |-> NoError,
          text |-> <<"{\"message\":\"">> \o Escape(msg.message) \o <<"\"">>
                   \o (IF msg.timestamp = None THEN <<>>
                       ELSE <<",\"timestamp\":", msg.timestamp>>)
                   \o <<",\"isSystem\":", Bool(msg.isSystem),
                        ",\"isStdErr\":", Bool(msg.isStdErr), "}">>]

\* The records a caller writes: a plain one, one whose message holds the
\* characters JSON escapes, and one that cannot be serialized.
Record(m, c) ==
    [message |-> m, timestamp |-> None, isSystem |-> TRUE, isStdErr |-> FALSE,
     cyclic |-> c]
Records ==
    {Record(<<"a">>, FALSE), Record(<<QUOTE, "b", NL, BACKSLASH>>, FALSE),
     Record(<<"c">>, TRUE)}

\* The record the drain handler synthesizes.
Warning(n, t) ==
    [message |-> <<"Warning: Suppressed ", ToString(n),
                   " message(s) due to high load">>,
     timestamp |-> ToString(t), isSystem |-> TRUE, isStdErr |-> TRUE,
     cyclic |-> FALSE]

----------------------------------------------------------------------------
(* The promise returned by Logger(): the first resolve or reject settles   *)
(* it, later ones do nothing.                                              *)

Pending == [state |-> "pending", value |-> None, reason |-> NoError]
Resolve(p, v) ==
    IF p.state = "pending"
    THEN [state |-> "resolved", value |-> v, reason |-> NoError]
    ELSE p
Reject(p, e) ==
    IF p.state = "pending"
    THEN [state |-> "rejected", value |-> None, reason |-> e]
    ELSE p

LoggerError(message, cause) ==
    [name |-> "LoggerError", message |-> message, cause |-> cause]

----------------------------------------------------------------------------
(* The session: the fields write and the drain handler work on.            *)

Session ==
    [writable |-> writable, dropCount |-> dropCount, sinkInput |-> sinkInput,
     queue |-> queue, needDrain |-> needDrain, flushes |-> flushes,
     pendingFlush |-> pendingFlush, throttle |-> throttle, logged |-> logged,
     calls |-> calls, thrown |-> NoError]

Store(s) ==
    /\ writable' = s.writable
    /\ dropCount' = s.dropCount
    /\ sinkInput' = s.sinkInput
    /\ queue' = s.queue
    /\ needDrain' = s.needDrain
    /\ flushes' = s.flushes
    /\ pendingFlush' = s.pendingFlush
    /\ throttle' = s.throttle
    /\ logged' = s.logged
    /\ calls' = s.calls

RECURSIVE Sum(_)
Sum(q) == IF q = <<>> THEN 0 ELSE Head(q) + Sum(Tail(q))

\* stream.write(chunk): the chunk is buffered; the result is false when the
\* buffer has reached the high-water mark, and then a 'drain' is owed.
SinkWrite(s, chunk) ==
    LET ret == Sum(s.queue) + Len(chunk) < SinkHighWaterMark IN
    [s EXCEPT !.sinkInput = @ \o chunk,
              !.queue = Append(@, Len(chunk)),
              !.needDrain = @ \/ ~ret,
              !.writable = ret]

\* The throttle's window after one more call, and the delay it gives the
\* call: none when the last window is over, else the start of the next free
\* window.
Throttled(w) ==
    IF now - w.currentTick > ZLIB_TIMEOUT
    THEN [currentTick |-> now, activeCount |-> 1, delay |-> 0]
    ELSE IF w.activeCount < ThrottleLimit
    THEN [currentTick |-> w.currentTick, activeCount |-> w.activeCount + 1,
          delay |-> w.currentTick - now]
    ELSE [currentTick |-> w.currentTick + ZLIB_TIMEOUT, activeCount |-> 1,
          delay |-> w.currentTick + ZLIB_TIMEOUT - now]

\* gzip.flush() in "https", "http" and "got"; the throttled flush() of
\* "throttled" schedules the call with setTimeout.
Flush(s) ==
    IF variant = "throttled"
    THEN LET w == Throttled(s.throttle) IN
         [s EXCEPT !.pendingFlush = Append(@, now + w.delay),
                   !.throttle = [currentTick |-> w.currentTick,
                                 activeCount |-> w.activeCount]]
    ELSE [s EXCEPT !.flushes =
                       Append(@, [at |-> now, after |-> Len(s.sinkInput)])]

\* WriteTry without the line end
WriteTryNoLineEnd(s, msg) ==
    LET json == JSONstringify(msg) IN
    IF json.thrown # NoError
    THEN [s EXCEPT !.thrown = json.thrown]
    ELSE Flush(SinkWrite(s, json.text))

\* WriteTry that does not give the sink a line it has no room for
WriteTrySkipWhenFull(s, msg) ==
    LET json == JSONstringify(msg) IN
    IF json.thrown # NoError
    THEN [s EXCEPT !.thrown = json.thrown]
    ELSE IF Sum(s.queue) + Len(json.text) + 1 < SinkHighWaterMark
    THEN Flush(SinkWrite(s, json.text \o <<NL>>))
    ELSE [s EXCEPT !.writable = FALSE, !.needDrain = s.queue # <<>>]

\* the try block of write
WriteTry(s, msg) ==
    LET json == JSONstringify(msg) IN
    IF json.thrown # NoError
    THEN [s EXCEPT !.thrown = json.thrown]
    ELSE Flush(SinkWrite(s, json.text \o <<NL>>))

\* WriteCatch that logs and throws again
WriteCatchRethrow(s, e) ==
    [s EXCEPT !.logged =
                  Append(@, <<"Failed to write to logging stream, dropping message",
                              e.name>>),
              !.thrown = e]

\* the catch block of write
WriteCatch(s, e) ==
    [s EXCEPT !.logged =
                  Append(@, <<"Failed to write to logging stream, dropping message",
                              e.name>>),
              !.thrown = NoError]

\* write without the test of the flag
writeIgnoringFlag(s, msg) ==
    LET t == WriteTry(s, msg) IN
    IF t.thrown # NoError THEN WriteCatch(s, t.thrown) ELSE t

\* write that counts a record it failed to serialize as a drop
writeCountingFailure(s, msg) ==
    IF s.writable
    THEN LET t == WriteTry(s, msg) IN
         IF t.thrown # NoError
         THEN [WriteCatch(s, t.thrown) EXCEPT !.dropCount = @ + 1]
         ELSE t
    ELSE [s EXCEPT !.dropCount = @ + 1]

\* const write = (msg) => { ... }
write(s, msg) ==
    IF s.writable
    THEN LET t == WriteTry(s, msg) IN
         IF t.thrown # NoError THEN WriteCatch(s, t.thrown) ELSE t
    ELSE [s EXCEPT !.dropCount = @ + 1]

\* write, with the call recorded
Call(s, msg, by) ==
    write([s EXCEPT !.calls =
                        Append(@, [msg |-> msg, by |-> by,
                                   writable |-> s.writable])],
          msg)

\* DrainHandler that pushes the warning before it sets writable
DrainHandlerWarningFirst(s) ==
    LET warn(x) == IF x.dropCount > 0
                   THEN LET w == Call(x, Warning(x.dropCount, now), "drain") IN
                        IF w.thrown # NoError THEN w
                        ELSE [w EXCEPT !.dropCount = 0]
                   ELSE x
        s1 == warn(s)
    IN  IF s1.thrown # NoError THEN s1
        ELSE Flush([s1 EXCEPT !.writable = TRUE])

\* DrainHandler that does not reset the counter
DrainHandlerKeepingCount(s) ==
    LET s1 == [s EXCEPT !.writable = TRUE]
        warn(x) == IF x.dropCount > 0
                   THEN Call(x, Warning(x.dropCount, now), "drain")
                   ELSE x
    IN  IF variant = "throttled" THEN warn(Flush(s1)) ELSE Flush(warn(s1))

\* the 'drain' listener
DrainHandler(s) ==
    LET s1 == [s EXCEPT !.writable = TRUE]
        warn(x) == IF x.dropCount > 0
                   THEN LET w == Call(x, Warning(x.dropCount, now), "drain") IN
                        IF w.thrown # NoError THEN w
                        ELSE [w EXCEPT !.dropCount = 0]
                   ELSE x
    IN  IF variant = "throttled"
        THEN warn(Flush(s1))
        ELSE LET s2 == warn(s1) IN
             IF s2.thrown # NoError THEN s2 ELSE Flush(s2)

----------------------------------------------------------------------------
(* The request's listeners *)

Message(event, status) ==
    CASE event = "response" ->
             <<"Received response from log backend with status code: ",
               ToString(status)>>
      [] event = "timeout" ->
             <<"Request timed out when trying to connect to the log backend">>
      [] event = "close" ->
             <<"Request to the log backend terminated prematurely">>
      [] event = "error" ->
             IF variant = "https"
             THEN <<"Request to the log backend terminated with unknown error">>
             ELSE <<"Request to the log backend terminated prematurely">>
      [] event = "gzip" -> <<"Failed to create gzip stream">>

Cause(event) ==
    CASE event = "response" -> IF variant = "https" THEN "res" ELSE None
      [] event \in {"error", "gzip"} -> "cause"
      [] OTHER -> None

ConsoleLine(event, status) ==
    CASE event = "response" -> <<"Received response", ToString(status)>>
      [] event = "timeout" -> <<"Request timed out">>
      [] event = "close" -> <<"Request closed">>
      [] event = "error" -> <<"Request error", "cause">>
      [] event = "gzip" -> <<"Gzip error", "cause">>

\* req.on(event, ...): "https" throws out of the listener, "http" logs and
\* rejects, "throttled" rejects.  The callback of pipeline(gzip, req, ...)
\* and gzip.on('error', ...) do the same for a compressor error, after
\* ending the stream.
Listener(event, status) ==
    LET e == LoggerError(Message(event, status), Cause(event)) IN
    /\ variant \in Listening
    /\ uncaught = NoError
    /\ Len(signals) < MaxSignals
    /\ \A i \in 1..Len(signals) : signals[i].event # event
    /\ signals' = Append(signals, [event |-> event, status |-> status,
                                   early |-> ~timerFired])
    /\ ended' = (ended \/ event = "gzip")
    /\ CASE variant = "https" ->
              /\ uncaught' = e
              /\ UNCHANGED <<promise, logged>>
         [] variant = "http" ->
              /\ logged' = Append(logged, ConsoleLine(event, status))
              /\ promise' = Reject(promise, e)
              /\ UNCHANGED uncaught
         [] OTHER ->
              /\ promise' = Reject(promise, e)
              /\ UNCHANGED <<uncaught, logged>>
    /\ UNCHANGED <<variant, now, timerFired, piped, writable, dropCount,
                   sinkInput, queue, needDrain, flushes, pendingFlush,
                   throttle, calls, raised, drains>>

OnResponse == \E status \in StatusCodes : Listener("response", status)
OnTimeout == Listener("timeout", 0)
OnClose == Listener("close", 0)
OnError == Listener("error", 0)
OnGzipError == Listener("gzip", 0)

----------------------------------------------------------------------------
(* The grace period *)

\* GraceOver without the wait
GraceOverAtOnce == TRUE

\* the timer of sleep(RESPONSE_GRACE_PERIOD) is due
GraceOver == now >= RESPONSE_GRACE_PERIOD

\* the continuation of Logger() after `await sleep(RESPONSE_GRACE_PERIOD)`
AfterSleep ==
    /\ uncaught = NoError
    /\ ~timerFired
    /\ GraceOver
    /\ timerFired' = TRUE
    /\ piped' = (variant \in {"got", "throttled"} \/ piped)
    /\ promise' = Resolve(promise, "write")
    /\ UNCHANGED <<variant, now, signals, uncaught, logged, writable,
                   dropCount, sinkInput, queue, needDrain, flushes,
                   pendingFlush, throttle, ended, calls, raised, drains>>

\* No timer that is set is due before time t: the sleep of the grace period
\* and the setTimeout of each scheduled flush.
Punctual(t) ==
    /\ ~timerFired => t <= RESPONSE_GRACE_PERIOD
    /\ \A i \in 1..Len(pendingFlush) : t <= pendingFlush[i]

\* time passes; a timer runs when it is due, before the clock moves on
Advance ==
    \E d \in TimeSteps :
        /\ uncaught = NoError
        /\ now + d <= MaxTime
        /\ Punctual(now + d)
        /\ now' = now + d
        /\ UNCHANGED <<variant, promise, timerFired, piped, signals, uncaught,
                       logged, writable, dropCount, sinkInput, queue,
                       needDrain, flushes, pendingFlush, throttle, ended,
                       calls, raised, drains>>

----------------------------------------------------------------------------
(* The established session *)

CallerWrites == Cardinality({i \in 1..Len(calls) : calls[i].by = "caller"})

\* the caller, holding the resolved write function, calls it
Write ==
    \E msg \in Records :
        /\ uncaught = NoError
        /\ promise.state = "resolved"
        /\ CallerWrites < MaxWrites
        /\ LET s == Call(Session, msg, "caller") IN
           /\ Store(s)
           /\ raised' = (raised \/ s.thrown # NoError)
        /\ UNCHANGED <<variant, now, promise, timerFired, piped, signals,
                       uncaught, ended, drains>>

\* the sink hands its oldest buffered chunk downstream
Consume ==
    /\ uncaught = NoError
    /\ piped
    /\ queue # <<>>
    /\ queue' = Tail(queue)
    /\ UNCHANGED <<variant, now, promise, timerFired, piped, signals, uncaught,
                   logged, writable, dropCount, sinkInput, needDrain, flushes,
                   pendingFlush, throttle, ended, calls, raised, drains>>

\* the sink has a 'drain' to emit: a write had returned false and its buffer
\* is empty now
DrainDue ==
    /\ uncaught = NoError
    /\ needDrain
    /\ queue = <<>>

\* the sink emits 'drain'
Drain ==
    /\ DrainDue
    /\ LET s == DrainHandler([Session EXCEPT !.needDrain = FALSE]) IN
       /\ Store(s)
       /\ uncaught' = s.thrown
    /\ drains' = drains + 1
    /\ UNCHANGED <<variant, now, promise, timerFired, piped, signals, ended,
                   raised>>

\* the timer of the oldest scheduled throttled flush is due:
\* gzip.flush(Z_SYNC_FLUSH)
RunFlush ==
    /\ uncaught = NoError
    /\ pendingFlush # <<>>
    /\ now >= Head(pendingFlush)
    /\ pendingFlush' = Tail(pendingFlush)
    /\ flushes' = Append(flushes, [at |-> now, after |-> Len(sinkInput)])
    /\ UNCHANGED <<variant, now, promise, timerFired, piped, signals, uncaught,
                   logged, writable, dropCount, sinkInput, queue, needDrain,
                   throttle, ended, calls, raised, drains>>

----------------------------------------------------------------------------

\* Logger() has run to its `await sleep(RESPONSE_GRACE_PERIOD)`
Init ==
    /\ variant \in Variants
    /\ now = 0
    /\ promise = Pending
    /\ timerFired = FALSE
    /\ piped = (variant \in {"https", "http"})
    /\ signals = <<>>
    /\ uncaught = NoError
    /\ logged = <<>>
    /\ writable = TRUE
    /\ dropCount = 0
    /\ sinkInput = <<>>
    /\ queue = <<>>
    /\ needDrain = FALSE
    /\ flushes = <<>>
    /\ pendingFlush = <<>>
    /\ throttle = [currentTick |-> 0, activeCount |-> 0]
    /\ ended = FALSE
    /\ calls = <<>>
    /\ raised = FALSE
    /\ drains = 0

Next ==
    \/ OnResponse
    \/ OnTimeout
    \/ OnClose
    \/ OnError
    \/ OnGzipError
    \/ AfterSleep
    \/ Advance
    \/ Write
    \/ Consume
    \/ Drain
    \/ RunFlush

Spec == Init /\ [][Next]_vars

\* The sink goes on consuming what is piped to it, and a 'drain' that is due
\* is emitted: the event loop runs the listener.  Drain is enabled exactly
\* when DrainDue holds and every Drain step leaves DrainDue false, so the weak
\* fairness of Drain is that DrainDue is false again and again.
FairSpec == Spec /\ WF_vars(Consume) /\ []<>~DrainDue

----------------------------------------------------------------------------
(* What the sink received, read back *)

\* the text split on newlines (a last line without its newline included)
RECURSIVE SplitLines(_, _)
SplitLines(str, cur) ==
    IF str = <<>> THEN (IF cur = <<>> THEN <<>> ELSE <<cur>>)
    ELSE IF Head(str) = NL THEN <<cur>> \o SplitLines(Tail(str), <<>>)
    ELSE SplitLines(Tail(str), Append(cur, Head(str)))

Lines(text) == SplitLines(text, <<>>)

\* the characters an escaped JSON string stands for
RECURSIVE Unescape(_)
Unescape(str) ==
    IF str = <<>> THEN <<>>
    ELSE IF Head(str) = BACKSLASH /\ Len(str) > 1
    THEN <<IF str[2] = "n" THEN NL ELSE str[2]>> \o Unescape(Tail(Tail(str)))
    ELSE <<Head(str)>> \o Unescape(Tail(str))

\* the index of the first unescaped quote of str at or after i (0: none)
RECURSIVE ClosingQuote(_, _)
ClosingQuote(str, i) ==
    IF i > Len(str) THEN 0
    ELSE IF str[i] = BACKSLASH THEN ClosingQuote(str, i + 2)
    ELSE IF str[i] = QUOTE THEN i
    ELSE ClosingQuote(str, i + 1)

\* the message member of a line of the output, parsed back
MessageOf(line) ==
    LET close == ClosingQuote(line, 2) IN
    IF Len(line) < 2 \/ line[1] # "{\"message\":\"" \/ close = 0
    THEN <<"not a record">>
    ELSE Unescape(SubSeq(line, 2, close - 1))

RECURSIVE MapSeq(_, _)
MapSeq(Op(_), seq) ==
    IF seq = <<>> THEN <<>> ELSE <<Op(Head(seq))>> \o MapSeq(Op, Tail(seq))

Forwarded(c) == c.writable /\ ~c.msg.cyclic
TextOf(c) == JSONstringify(c.msg).text
GivenMessage(c) == c.msg.message

\* this step is a call of write by the caller
CallerCall ==
    /\ Len(calls') = Len(calls) + 1
    /\ calls'[Len(calls')].by = "caller"
\* the record this step's call was given
Called == calls'[Len(calls')].msg
\* this step is the drain handler
DrainStep == drains' = drains + 1

\* the number of calls at the end of c made by the caller while not writable
RECURSIVE TrailingDrops(_)
TrailingDrops(c) ==
    IF c = <<>> THEN 0
    ELSE LET l == c[Len(c)] IN
         IF l.by = "caller" /\ ~l.writable
         THEN 1 + TrailingDrops(SubSeq(c, 1, Len(c) - 1))
         ELSE 0

\* the line of the warning that reports n drops at time t
WarningLine(n, t) ==
    <<"{\"message\":\"", "Warning: Suppressed ", ToString(n),
      " message(s) due to high load", "\"", ",\"timestamp\":", ToString(t),
      ",\"isSystem\":", "true", ",\"isStdErr\":", "true", "}">>

----------------------------------------------------------------------------
(* The claims *)

\* C1: a call of write made while writable is false gives nothing to the
\* sink: the sink's input and its buffer are as they were before the call.
C1_NoPushWhileUnwritable ==
    [][(CallerCall /\ ~writable) =>
           (sinkInput' = sinkInput /\ queue' = queue)]_vars

\* C1 witness: the caller has written while writable was false, after the
\* sink had taken lines.
C1_Witness ==
    /\ sinkInput # <<>>
    /\ \E i \in 1..Len(calls) : calls[i].by = "caller" /\ ~calls[i].writable

\* C2: when the sink drains after N >= 1 consecutive writes made while
\* writable was false, exactly one line is added to the sink's input, at its
\* end: the warning that reports N, with isSystem and isStdErr true; the drop
\* counter is 0 after the handler; a drain with no drops adds nothing.
C2_OneWarningPerDrain ==
    [][DrainStep =>
           /\ dropCount = TrailingDrops(calls)
           /\ dropCount' = 0
           /\ IF dropCount > 0
              THEN sinkInput' =
                       sinkInput \o WarningLine(dropCount, now) \o <<NL>>
              ELSE sinkInput' = sinkInput]_vars

\* C2 witness: the caller wrote twice while writable was false, the sink
\* drained, and the warning that reports two drops is the sink's last line.
C2_Witness ==
    /\ dropCount = 0
    /\ drains > 0
    /\ Len(calls) > 2
    /\ LET i == Len(calls) IN
       /\ calls[i].by = "drain"
       /\ calls[i].msg.message[2] = "2"
       /\ ~calls[i - 1].writable /\ ~calls[i - 2].writable
       /\ Lines(sinkInput)[Len(Lines(sinkInput))] = WarningLine(2, now)

\* C3: the lines given to the sink are, in order, the serializations of the
\* records written while writable was true (the caller's and the warnings),
\* in the order of the calls; nothing else is in the output.
C3_OutputIsForwardedCallsInOrder ==
    Lines(sinkInput) = MapSeq(TextOf, SelectSeq(calls, Forwarded))

\* C3 witness: a record forwarded, a record dropped, the warning, and a
\* record forwarded after it.
C3_Witness ==
    \E i \in 1..Len(calls) :
        /\ i > 2 /\ i < Len(calls)
        /\ calls[i].by = "drain"
        /\ Forwarded(calls[i - 2])
        /\ ~calls[i - 1].writable
        /\ Forwarded(calls[i + 1]) /\ calls[i + 1].by = "caller"
        /\ Len(Lines(sinkInput)) = 3 + Len(SelectSeq(SubSeq(calls, 1, i - 3),
                                                     Forwarded))

\* C4: as long as every call was made while writable was true, the sink's
\* input is whole lines, one per serializable record, in call order, and each
\* line parses back to the record's message.
C4_OneLinePerRecord ==
    (\A i \in 1..Len(calls) : calls[i].writable) =>
        LET sent == SelectSeq(calls, Forwarded) IN
        /\ sinkInput # <<>> => sinkInput[Len(sinkInput)] = NL
        /\ Len(Lines(sinkInput)) = Len(sent)
        /\ MapSeq(MessageOf, Lines(sinkInput)) = MapSeq(GivenMessage, sent)

\* C4 witness: three records written while writable, one of them with a
\* newline and a quote in its message.
C4_Witness ==
    /\ \A i \in 1..Len(calls) : calls[i].writable
    /\ Len(SelectSeq(calls, Forwarded)) >= 3
    /\ \E i \in 1..Len(calls) :
           Forwarded(calls[i]) /\ \E j \in 1..Len(calls[i].msg.message) :
                                      calls[i].msg.message[j] = NL

\* C5: no call of write throws to its caller, whatever the session's state.
C5_WriteNeverRaises == raised = FALSE

\* C5 witness: the caller has written a record that cannot be serialized
\* after the request was closed, and a record while writable was false.
C5_Witness ==
    /\ \E i \in 1..Len(calls) : calls[i].by = "caller" /\ ~calls[i].writable
    /\ \E i, j \in 1..Len(logged) :
           /\ i < j
           /\ logged[i] = <<"Request closed">>
           /\ logged[j][1] = "Failed to write to logging stream, dropping message"

\* C6: a write whose serialization throws while writable is true changes
\* neither the flag, the drop counter nor the sink, and a serializable record
\* written next is given to the sink.
C6_FailedWriteLeavesNoTrace ==
    [][/\ (CallerCall /\ writable /\ Called.cyclic) =>
              UNCHANGED <<writable, dropCount, sinkInput, queue, needDrain,
                          flushes, pendingFlush>>
       /\ (/\ CallerCall /\ ~Called.cyclic
           /\ calls # <<>>
           /\ calls[Len(calls)].writable /\ calls[Len(calls)].msg.cyclic) =>
              sinkInput' = sinkInput \o TextOf([msg |-> Called]) \o <<NL>>]_vars

\* C6 witness: a record that cannot be serialized was written while writable
\* was true, and the next record written is in the sink.
C6_Witness ==
    \E i \in 1..Len(calls) :
        /\ i < Len(calls)
        /\ calls[i].writable /\ calls[i].msg.cyclic
        /\ Forwarded(calls[i + 1])
        /\ Lines(sinkInput) # <<>>

\* some event, of the request or of the compressor, was delivered before the
\* grace period's continuation
EarlySignal == \E i \in 1..Len(signals) : signals[i].early

\* some event of the request was delivered before the grace period's
\* continuation
EarlyRequestSignal ==
    \E i \in 1..Len(signals) : signals[i].early /\ signals[i].event # "gzip"

\* C7: when a response, a timeout, a close or an error of the request
\* comes before the grace period is over, the promise of Logger() is rejected
\* with a LoggerError (naming the status code of a response), the write
\* function is not handed out and the sink receives nothing.
C7_EarlySignalRejects ==
    EarlyRequestSignal =>
        /\ promise.state = "rejected"
        /\ promise.reason.name = "LoggerError"
        /\ signals[1].event = "response" =>
               promise.reason.message[Len(promise.reason.message)]
                   = ToString(signals[1].status)
        /\ promise.value # "write"
        /\ sinkInput = <<>>

\* C8: with no request event during the grace period the promise resolves
\* with the write function; it is resolved only by the continuation of the
\* sleep, when the grace period has elapsed, and the session is then
\* writable with no drops.
C8_ResolvesAfterGrace ==
    /\ (timerFired /\ ~EarlySignal) =>
           (promise.state = "resolved" /\ promise.value = "write")
    /\ promise.state = "resolved" =>
           (timerFired /\ now >= RESPONSE_GRACE_PERIOD)
    /\ (promise.state = "resolved" /\ calls = <<>>) =>
           (writable /\ dropCount = 0)

\* C8 witness: the grace period went by without an event and the promise is
\* resolved; the caller has not written yet.
C8_Witness ==
    /\ promise.state = "resolved"
    /\ signals = <<>>
    /\ calls = <<>>

\* C9: the promise of Logger() is settled once, by the first of the request
\* events and the grace period's timer: rejected when a request event came
\* first, resolved when the timer came first, and never changed afterwards.
C9_FirstEventSettles ==
    [][/\ promise.state # "pending" => promise' = promise
       /\ EarlySignal' => promise'.state = "rejected"
       /\ (timerFired' /\ ~EarlySignal') => promise'.state = "resolved"]_vars

\* C10: a request event that comes after the promise resolved is observable:
\* it is logged or raised; it is never dropped without a trace, and it makes
\* no call of write throw.
C10_LateSignalObservable ==
    /\ raised = FALSE
    /\ \A i \in 1..Len(signals) :
           (~signals[i].early /\ signals[i].event # "gzip") =>
               \/ uncaught # NoError
               \/ \E j \in 1..Len(logged) :
                      logged[j] = ConsoleLine(signals[i].event,
                                              signals[i].status)

\* C11: any two calls of gzip.flush() are at least one cadence interval
\* (ZLIB_TIMEOUT) apart, whatever the writes and the drains were: no interval
\* of that length has two flushes in it.
C11_OneFlushPerInterval ==
    \A i \in 1..Len(flushes) : \A j \in 1..Len(flushes) :
        i < j => flushes[j].at - flushes[i].at >= ZLIB_TIMEOUT

\* the calls so far are a burst: two or more calls by the caller, each made
\* while writable with a record that serializes, with no drain, all within
\* the first cadence interval after the write function was handed out
Burst ==
    /\ Len(calls) >= 2
    /\ \A i \in 1..Len(calls) : calls[i].by = "caller" /\ Forwarded(calls[i])
    /\ now < RESPONSE_GRACE_PERIOD + ZLIB_TIMEOUT
    /\ drains = 0

\* C12: a burst of writes gets one call of gzip.flush(), made or scheduled,
\* not one per write, and that flush comes after all the lines of the burst.
C12_BurstIsOneFlush ==
    Burst =>
        /\ Len(flushes) + Len(pendingFlush) = 1
        /\ flushes # <<>> => flushes[1].after = Len(sinkInput)

\* C13: when the drain handler calls write with the warning, the call finds
\* writable true, so it takes the branch that pushes and not the one that
\* increments dropCount; the warning is the call's line in the sink's input
\* and dropCount is 0 after the handler.
C13_WarningNotCounted ==
    [][(DrainStep /\ dropCount > 0) =>
           /\ Len(calls') = Len(calls) + 1
           /\ calls'[Len(calls')].by = "drain"
           /\ calls'[Len(calls')].writable
           /\ Len(Lines(sinkInput')) = Len(Lines(sinkInput)) + 1
           /\ dropCount' = 0]_vars

\* C13 witness: the drain handler has called write with a warning and the
\* counter is back at 0.
C13_Witness ==
    /\ drains > 0
    /\ dropCount = 0
    /\ \E i \in 1..Len(calls) : calls[i].by = "drain" /\ calls[i].writable

\* the conditions that end a session
Events == {"response", "timeout", "close", "error", "gzip"}
\* what tells the kind of an error value: its name and its fixed message
Kind(err) == <<err.name, err.message[1]>>
\* the error value the program gave for the event that came
Reported == IF uncaught # NoError THEN uncaught ELSE promise.reason

\* C14: the error value reported for a condition that came during the grace
\* period has a kind of its own: no other condition is reported with an error
\* value of the same kind.
C14_DistinctKinds ==
    (signals # <<>> /\ signals[1].early) =>
        \A ev \in Events \ {signals[1].event} : \A st \in StatusCodes :
            Kind(Reported) # Kind(LoggerError(Message(ev, st), Cause(ev)))

\* the lengths of the lines the caller's records make
LineLengths ==
    {Len(JSONstringify(r).text) + 1 : r \in {x \in Records : ~x.cyclic}}
\* the most lines the sink's buffer can hold: a line is taken only while the
\* buffer is below the high water mark
MaxBuffered ==
    LET shortest == CHOOSE n \in LineLengths : \A k \in LineLengths : n <= k
    IN  (SinkHighWaterMark - 1) \div shortest + 1
\* the sink has consumed nothing yet: all its input is still in its buffer
NothingConsumed == Len(sinkInput) = Sum(queue)

C16_DropsEventuallyReported ==
    /\ (dropCount > 0) ~> (dropCount = 0 \/ uncaught # NoError)
    /\ [][DrainStep =>
             /\ dropCount' = 0
             /\ dropCount > 0 =>
                    Lines(sinkInput')[Len(Lines(sinkInput'))]
                        = WarningLine(dropCount, now)]_vars

\* C16 witness: drops were made, the sink drained, a warning is the last
\* line of its input and the counter is 0.
C16_Witness ==
    /\ dropCount = 0
    /\ \E i \in 1..Len(calls) : calls[i].by = "caller" /\ ~calls[i].writable
    /\ \E n \in 1..MaxWrites :
           Lines(sinkInput)[Len(Lines(sinkInput))] = WarningLine(n, now)

\* C17: an error of the compressor ends the stream, and when it comes during
\* the grace period the promise of Logger() is rejected, as for the request's
\* events, with a LoggerError that carries the cause.
C17_GzipErrorFailsConstruction ==
    (signals # <<>> /\ signals[1].event = "gzip") =>
        /\ ended
        /\ signals[1].early =>
               /\ promise.state = "rejected"
               /\ promise.reason.name = "LoggerError"
               /\ promise.reason.cause = Cause("gzip")
               /\ promise.value # "write"

\* a terminal condition has come on the established session; a response and
\* a timeout are the ones that leave the request itself open
LateTerminal ==
    \E i \in 1..Len(signals) :
        ~signals[i].early /\ signals[i].event \in {"response", "timeout"}

\* C18: once a terminal condition has come on an established session, the
\* session is over: no later call of write by the caller gives a line to the
\* sink.
C18_NoPushAfterTerminal ==
    [][(LateTerminal /\ CallerCall) => sinkInput' = sinkInput]_vars

\* C19: between handlers, writable true means dropCount is 0; dropCount is never
\* negative, and it is positive only while writable is false and a drain of
\* the sink is awaited.
C19_DropsOnlyWhileUnwritable ==
    /\ writable => dropCount = 0
    /\ dropCount >= 0
    /\ dropCount > 0 => (~writable /\ needDrain)

\* C19 witness: after a first drain the sink filled up again and a write was
\* dropped.
C19_Witness ==
    /\ drains > 0
    /\ ~writable
    /\ dropCount > 0

\* a line of the output that is a warning of the drain handler
IsWarning(line) == Len(line) >= 3 /\ line[2] = "Warning: Suppressed "
\* the count a line reports, 0 for a line of the caller
DropsIn(line) ==
    IF IsWarning(line)
    THEN CHOOSE k \in 0..Len(calls) : ToString(k) = line[3]
    ELSE 0
\* the sum of the counts of the warnings pushed so far
ReportedDrops == Sum(MapSeq(DropsIn, Lines(sinkInput)))
\* the lines of the caller's records in the sink's input
CallerLines ==
    LET out == Lines(sinkInput) IN
    Cardinality({i \in 1..Len(out) : ~IsWarning(out[i])})
\* the writes that failed to serialize their record
FailedWrites ==
    Cardinality({i \in 1..Len(logged) :
        logged[i][1] = "Failed to write to logging stream, dropping message"})

\* C20: every write of the caller is accounted for once: the caller's writes
\* are the caller's lines in the sink's input, plus the writes that failed
\* to serialize, plus the counts of all the warnings pushed, plus dropCount.
C20_EveryWriteAccounted ==
    CallerWrites = CallerLines + FailedWrites + ReportedDrops + dropCount

\* C20 witness: lines were pushed, a write failed to serialize and a warning
\* has reported a drop.
C20_Witness ==
    /\ CallerLines > 0
    /\ FailedWrites > 0
    /\ ReportedDrops > 0

====
